---- MODULE Spec2Model ----
(***************************************************************************)
(* Session orchestration of the Student Learning Companion: the reducer    *)
(* (appReducer), the App component's handlers (handleStart, handleAnswer,   *)
(* runAssessmentCycle, runAdaptationCycle, runContentCycle,                 *)
(* handleContentNext, downloadPack), the QuizCard's delayed onAnswer        *)
(* callback and the five Model Gateway calls of geminiService.ts.           *)
(*                                                                         *)
(* A handler runs synchronously up to its next await; each such segment is  *)
(* one action.  A handler suspended at an await is an element of `chains`,  *)
(* holding the values its closure captured.  Identifiers, timestamps and    *)
(* the free-text details of log entries are not modelled.  The display      *)
(* toggle TOGGLE_BANDWIDTH touches nothing the handlers read; it is applied *)
(* under SpecAny only.  TOGGLE_OFFLINE_MODE is dispatched nowhere.          *)
(***************************************************************************)
EXTENDS Integers, Sequences, FiniteSets, TLC

VARIABLES
    state,            \* the useReducer state (AppState)
    currentQuestion,  \* useState<QuizQuestion | null>
    currentContent,   \* useState<LearningMaterial | null>
    timers,           \* pending setTimeout(() => onAnswer(idx), 600) callbacks, in firing order
    chains,           \* handlers suspended at an await of a Model Gateway call
    nextId,           \* number of gateway artifacts produced so far (names question/material instances)
    clicks,           \* number of option clicks so far
    continues,        \* number of "Continue Learning" clicks so far
    downloads,        \* the packData files downloaded so far
    last              \* the handler segment that ran last, and the AppState it started from

vars == <<state, currentQuestion, currentContent, timers, chains, nextId,
          clicks, continues, downloads, last>>

----------------------------------------------------------------------------
(* Bounds of the model *)

\* option clicks, and user actions after the start (clicks, continues, exports)
MaxClicks == 2
MaxUserActions == 3

----------------------------------------------------------------------------
(* Values *)

Null == <<>>
Some(x) == <<x>>
Get(o) == o[1]

Min(a, b) == IF a < b THEN a ELSE b
Max(a, b) == IF a > b THEN a ELSE b

IsPrefix(s, t) == Len(s) <= Len(t) /\ SubSeq(t, 1, Len(s)) = s

ASSESSMENT == "Assessment Agent"
ADAPTATION == "Adaptation Agent"
CURATOR == "Content Curator Agent"
LANGUAGE == "Language Bridge Agent"
SAFETY == "Safety Agent"
SYSTEM == "System"

\* The AgentLog built by logAgent: the status is always 'success'.
AgentLog(agent, action) == [agent |-> agent, action |-> action, status |-> "success"]

initialState ==
    [isOfflineMode |-> FALSE,
     isLowBandwidth |-> FALSE,
     currentStep |-> "idle",
     logs |-> <<>>,
     session |-> Null,
     isLoading |-> FALSE]

----------------------------------------------------------------------------
(* The reducer *)

MasteryAfterNoClamp(m, isCorrect) == IF isCorrect THEN m + 20 ELSE m - 10

\* newMastery of RECORD_ANSWER
MasteryAfter(m, isCorrect) ==
    IF isCorrect THEN Min(100, m + 20) ELSE Max(0, m - 10)

QuizEvent(question, isCorrect) ==
    [type |-> "quiz", data |-> question, isCorrect |-> isCorrect]

HistoryAfterPrepend(h, question, isCorrect) == <<QuizEvent(question, isCorrect)>> \o h

\* history of RECORD_ANSWER: [...state.session.history, {...}]
HistoryAfter(h, question, isCorrect) == Append(h, QuizEvent(question, isCorrect))

NewSessionKeepMastery(s, p) ==
    [topic |-> p.topic, courseName |-> p.courseName, gradeLevel |-> p.grade,
     masteryScore |-> IF s.session = Null THEN 0 ELSE Get(s.session).masteryScore,
     history |-> <<>>]

\* the session object of START_SESSION
NewSession(s, p) ==
    [topic |-> p.topic, courseName |-> p.courseName, gradeLevel |-> p.grade,
     masteryScore |-> 0,
     history |-> <<>>]

appReducer(s, a) ==
    CASE a.type = "ADD_LOG" ->
            [s EXCEPT !.logs = Append(s.logs, a.payload)]
      [] a.type = "START_SESSION" ->
            [s EXCEPT !.currentStep = "assessing",
                      !.session = Some(NewSession(s, a.payload)),
                      !.logs = <<>>]
      [] a.type = "SET_LOADING" ->
            [s EXCEPT !.isLoading = a.payload]
      [] a.type = "SET_CURRENT_QUESTION" ->
            [s EXCEPT !.currentStep = "assessing", !.isLoading = FALSE]
      [] a.type = "SET_CURRENT_CONTENT" ->
            [s EXCEPT !.currentStep = "learning", !.isLoading = FALSE]
      [] a.type = "RECORD_ANSWER" ->
            IF s.session = Null THEN s
            ELSE [s EXCEPT !.session = Some(
                     [Get(s.session) EXCEPT
                        !.masteryScore = MasteryAfter(Get(s.session).masteryScore,
                                                      a.payload.isCorrect),
                        !.history = HistoryAfter(Get(s.session).history,
                                                 a.payload.question,
                                                 a.payload.isCorrect)])]
      [] a.type = "TOGGLE_BANDWIDTH" ->
            [s EXCEPT !.isLowBandwidth = ~s.isLowBandwidth]
      [] a.type = "TOGGLE_OFFLINE_MODE" ->
            [s EXCEPT !.isOfflineMode = ~s.isOfflineMode]
      [] OTHER -> s

logAgentPrepend(s, agent, action) ==
    [s EXCEPT !.logs = <<AgentLog(agent, action)>> \o s.logs]

\* logAgent: dispatch of ADD_LOG
logAgent(s, agent, action) ==
    appReducer(s, [type |-> "ADD_LOG", payload |-> AgentLog(agent, action)])

setLoadingStuck(s, b) == appReducer(s, [type |-> "SET_LOADING", payload |-> TRUE])

setLoading(s, b) == appReducer(s, [type |-> "SET_LOADING", payload |-> b])

----------------------------------------------------------------------------
(* Model Gateway (geminiService.ts) *)

DifficultyForInclusive(previousMastery) ==
    IF previousMastery >= 70 THEN "hard"
    ELSE IF previousMastery >= 40 THEN "medium" ELSE "easy"

\* generateAssessment: the difficulty written into the request
DifficultyFor(previousMastery) ==
    IF previousMastery > 70 THEN "hard"
    ELSE IF previousMastery > 40 THEN "medium" ELSE "easy"

\* Ways a gateway call can throw: the request itself rejects, response.text is
\* empty, or JSON.parse (or the first use of the parsed value) throws.
FailureKinds == {"TransportFailure", "EmptyResponse", "MalformedResponse"}

\* Replies of the service that parse.  The reply is trusted as-is: its
\* difficulty and topic label need not be the ones that were asked for.
ReplyCorrectIndexes == {1}
ReplyDifficulties == {"medium"}
ReplyTopics == {"Linear Equations"}
NumOptions == 4

\* The options the learner clicks: a wrong one (A) or the right one (B)
ClickIndexes == {0, 1}

QuizReplies(id) ==
    {[qid |-> id, numOptions |-> NumOptions, correctOptionIndex |-> c,
      difficulty |-> d, topic |-> t] :
        c \in ReplyCorrectIndexes, d \in ReplyDifficulties, t \in ReplyTopics}

\* "undefined" stands for a parsed object without a nextAction field
PlanReplies ==
    {[nextAction |-> n, suggestedFocus |-> "basics"] :
        n \in {"quiz", "content", "review", "undefined"}}

CuratedReplies(id) == {[mid |-> id, languageMode |-> "english"]}

LocalizedReplies(id) == {[mid |-> id, languageMode |-> l] : l \in {"urdu_mix"}}

\* the replies of the safety service: no text, or a parsed verdict
SafetyReplies == {Null, Some([safe |-> TRUE]), Some([safe |-> FALSE])}

safetyCheckFailClosed(text) == IF text = Null THEN [safe |-> FALSE] ELSE Get(text)

\* safetyCheck: no text gives { safe: true }, otherwise the parsed object
safetyCheck(text) == IF text = Null THEN [safe |-> TRUE] ELSE Get(text)

----------------------------------------------------------------------------
(* Form inputs of the idle screen *)

TopicInputs == {"", " ", "Algebra"}
Sources == {"Punjab"}
CourseInputs == {"", "Grade IX Mathematics"}

\* String.prototype.trim on the inputs above
Trim(t) == IF t = " " THEN "" ELSE t

\* handleStart: the grade matched by /(?:Grades?|Class)[-\s]+([IVX]+|[0-9]+)/i, else "9"
GradeOf(course) == IF course = "Grade IX Mathematics" THEN "IX" ELSE "9"

\* `${selectedSource}: ${selectedCourse}`
FullContext(source, course) == <<source, course>>

----------------------------------------------------------------------------
(* Suspended handlers *)

\* A handler suspended at `await <awaiting>(...)` with the arguments and
\* closure values it holds.  masteryAfter, question and material record the
\* session mastery right after the answer was recorded and the card that was
\* on screen when the handler was triggered; index is the option handleAnswer
\* was called with and trail the calls of this handler that have returned.
Chain(id, origin, awaiting, lastCorrect, mastery, masteryAfter, topic, grade, course, question, material) ==
    [id |-> id, origin |-> origin, awaiting |-> awaiting,
     lastCorrect |-> lastCorrect, mastery |-> mastery,
     masteryAfter |-> masteryAfter, topic |-> topic, grade |-> grade,
     course |-> course, difficulty |-> "", focus |-> "", raw |-> Null,
     question |-> question, material |-> material,
     index |-> 0 - 1, trail |-> <<>>]

\* user actions after the start so far
UserActions == clicks + continues + Len(downloads)

Event(op, c, info) ==
    [op |-> op, chain |-> c, info |-> info, pre |-> state,
     preQuestion |-> currentQuestion, preContent |-> currentContent]

\* runAssessmentCycle up to its await
assessmentCall(s) == logAgent(setLoading(s, TRUE), ASSESSMENT, "Generating Quiz")

Init ==
    /\ state = initialState
    /\ currentQuestion = Null
    /\ currentContent = Null
    /\ timers = <<>>
    /\ chains = {}
    /\ nextId = 1
    /\ clicks = 0
    /\ continues = 0
    /\ downloads = <<>>
    /\ last = [op |-> "init", chain |-> Null, info |-> "", pre |-> initialState,
               preQuestion |-> Null, preContent |-> Null]

\* handleStart, as far as the await inside runAssessmentCycle
handleStartBody(topicInput, selectedSource, selectedCourse) ==
    /\ Trim(topicInput) # ""
    /\ selectedCourse # ""
    /\ LET grade == GradeOf(selectedCourse)
           fullContext == FullContext(selectedSource, selectedCourse)
           s1 == appReducer(state, [type |-> "START_SESSION",
                                    payload |-> [topic |-> topicInput, grade |-> grade,
                                                 courseName |-> fullContext]])
           s2 == logAgent(s1, SYSTEM, "Initialization")
           c == [Chain(0, "start", "generateAssessment", FALSE, 0, 0, topicInput,
                       grade, fullContext, Null, Null)
                   EXCEPT !.difficulty = DifficultyFor(0)]
       IN /\ state' = assessmentCall(s2)
          /\ chains' = chains \cup {c}
          /\ last' = Event("handleStart", Some(c), "")
    /\ UNCHANGED <<currentQuestion, currentContent, timers, nextId, clicks, continues, downloads>>

\* The Start Session button exists only on the idle screen.
handleStart ==
    /\ state.currentStep = "idle"
    /\ \E t \in TopicInputs, src \in Sources, crs \in CourseInputs :
          handleStartBody(t, src, crs)

\* QuizCard.handleSelect: the card is rendered when not loading, in step
\* assessing, with a current question; the callback captured is the
\* handleAnswer of that render.
handleSelect ==
    /\ ~state.isLoading
    /\ state.currentStep = "assessing"
    /\ currentQuestion # Null
    /\ clicks < MaxClicks
    /\ UserActions < MaxUserActions
    /\ \E idx \in ClickIndexes \cap (0 .. (Get(currentQuestion).numOptions - 1)) :
          /\ timers' = Append(timers, [idx |-> idx, click |-> clicks + 1,
                                       currentQuestion |-> currentQuestion,
                                       session |-> state.session])
          /\ last' = Event("handleSelect", Null, "")
    /\ clicks' = clicks + 1
    /\ UNCHANGED <<state, currentQuestion, currentContent, chains, nextId, continues, downloads>>

\* The oldest timer fires: handleAnswer, then runAdaptationCycle up to its await.
\* currentQuestion and state.session are the values of the render captured.
handleAnswer ==
    /\ timers # <<>>
    /\ LET t == Head(timers) IN
       /\ t.currentQuestion # Null
       /\ t.session # Null
       /\ LET q == Get(t.currentQuestion)
              sess == Get(t.session)
              isCorrect == (t.idx = q.correctOptionIndex)
              s1 == logAgent(state, SYSTEM, "User Input")
              s2 == appReducer(s1, [type |-> "RECORD_ANSWER",
                                    payload |-> [question |-> q, isCorrect |-> isCorrect]])
              s3 == setLoading(s2, TRUE)
              s4 == logAgent(s3, ADAPTATION, "Analyzing Path")
              c == [Chain(t.click, "answer", "adaptPath", isCorrect, sess.masteryScore,
                          Get(s2.session).masteryScore, q.topic, sess.gradeLevel,
                          sess.courseName, t.currentQuestion, Null)
                      EXCEPT !.index = t.idx]
          IN /\ state' = s4
             /\ currentQuestion' = Null
             /\ chains' = chains \cup {c}
             /\ last' = Event("handleAnswer", Some(c),
                              IF isCorrect THEN "correct" ELSE "incorrect")
    /\ timers' = Tail(timers)
    /\ UNCHANGED <<currentContent, nextId, clicks, continues, downloads>>

----------------------------------------------------------------------------
(* Model Gateway calls return or throw: the suspended handler resumes *)

\* adaptPath returned `plan`: the rest of runAdaptationCycle's try block, up
\* to the await inside runAssessmentCycle or runContentCycle.  A plan without
\* nextAction throws at plan.nextAction.toUpperCase() and lands in the catch.
adaptPathReturns ==
    \E c \in chains, plan \in PlanReplies :
       /\ c.awaiting = "adaptPath"
       /\ IF plan.nextAction = "undefined"
          THEN /\ state' = setLoading(state, FALSE)
               /\ chains' = chains \ {c}
          ELSE LET s1 == logAgent(state, ADAPTATION, "Path Updated") IN
               IF plan.nextAction = "quiz"
               THEN /\ state' = assessmentCall(s1)
                    /\ chains' = (chains \ {c}) \cup
                          {[c EXCEPT !.awaiting = "generateAssessment",
                                     !.difficulty = DifficultyFor(c.mastery),
                                     !.trail = Append(c.trail, "adaptPath")]}
               ELSE /\ state' = logAgent(s1, CURATOR, "Sourcing Content")
                    /\ chains' = (chains \ {c}) \cup
                          {[c EXCEPT !.awaiting = "curateContent",
                                     !.focus = plan.suggestedFocus,
                                     !.trail = Append(c.trail, "adaptPath")]}
       /\ last' = Event("adaptPathReturns", Some(c), plan.nextAction)
       /\ UNCHANGED <<currentQuestion, currentContent, timers, nextId, clicks,
                      continues, downloads>>

\* generateAssessment returned `quiz`: the rest of runAssessmentCycle's try block
quizReturned(c, quiz) ==
    /\ c.awaiting = "generateAssessment"
    /\ currentQuestion' = Some(quiz)
    /\ state' = appReducer(logAgent(state, ASSESSMENT, "Quiz Ready"),
                           [type |-> "SET_CURRENT_QUESTION", payload |-> quiz])
    /\ chains' = chains \ {c}
    /\ nextId' = nextId + 1
    /\ last' = Event("generateAssessmentReturns", Some(c), "")
    /\ UNCHANGED <<currentContent, timers, clicks, continues, downloads>>

generateAssessmentReturns ==
    \E c \in chains : \E quiz \in QuizReplies(nextId) : quizReturned(c, quiz)

\* curateContent returned `rawContent`: runContentCycle up to await safetyCheck
curateContentReturns ==
    \E c \in chains :
       /\ c.awaiting = "curateContent"
       /\ \E rawContent \in CuratedReplies(nextId) :
             chains' = (chains \ {c}) \cup
                          {[c EXCEPT !.awaiting = "safetyCheck", !.raw = Some(rawContent),
                                     !.trail = Append(c.trail, "curateContent")]}
       /\ state' = logAgent(logAgent(state, CURATOR, "Content Found"), SAFETY, "Filtering")
       /\ nextId' = nextId + 1
       /\ last' = Event("curateContentReturns", Some(c), "")
       /\ UNCHANGED <<currentQuestion, currentContent, timers, clicks, continues, downloads>>

\* safetyCheck resolved: runContentCycle up to await bridgeLanguage
safetyCheckReturns ==
    \E c \in chains, text \in SafetyReplies :
       /\ c.awaiting = "safetyCheck"
       /\ LET safety == safetyCheck(text)
              s1 == IF ~safety.safe
                    THEN logAgent(state, SAFETY, "Blocked")
                    ELSE logAgent(state, SAFETY, "Verified")
          IN /\ state' = logAgent(s1, LANGUAGE, "Localizing")
             /\ last' = Event("safetyCheckReturns", Some(c),
                              IF text = Null THEN "no text"
                              ELSE IF safety.safe THEN "safe" ELSE "unsafe")
       /\ chains' = (chains \ {c}) \cup
             {[c EXCEPT !.awaiting = "bridgeLanguage",
                        !.trail = Append(c.trail, "safetyCheck")]}
       /\ UNCHANGED <<currentQuestion, currentContent, timers, nextId, clicks,
                      continues, downloads>>

\* bridgeLanguage returned `localizedContent`: the rest of runContentCycle's try block
bridgeLanguageReturns ==
    \E c \in chains :
       /\ c.awaiting = "bridgeLanguage"
       /\ \E localizedContent \in LocalizedReplies(nextId) :
             /\ currentContent' = Some(localizedContent)
             /\ state' = appReducer(logAgent(state, LANGUAGE, "Ready"),
                                    [type |-> "SET_CURRENT_CONTENT",
                                     payload |-> localizedContent])
       /\ chains' = chains \ {c}
       /\ nextId' = nextId + 1
       /\ last' = Event("bridgeLanguageReturns", Some(c), "")
       /\ UNCHANGED <<currentQuestion, timers, clicks, continues, downloads>>

catchBlockBackToIdle(s, c) ==
    LET s1 == IF c.awaiting = "generateAssessment"
              THEN setLoading(logAgent(s, SYSTEM, "Error"), FALSE)
              ELSE setLoading(s, FALSE)
    IN [s1 EXCEPT !.currentStep = "idle"]

catchBlockClearsHistory(s, c) ==
    LET s1 == IF c.awaiting = "generateAssessment"
              THEN setLoading(logAgent(s, SYSTEM, "Error"), FALSE)
              ELSE setLoading(s, FALSE)
    IN IF s1.session = Null THEN s1
       ELSE [s1 EXCEPT !.session = Some([Get(s1.session) EXCEPT !.history = <<>>])]

\* The catch block reached when the call `c` awaits throws.  Only
\* runAssessmentCycle's catch logs; those of runAdaptationCycle and
\* runContentCycle only clear the loading flag.
catchBlock(s, c) ==
    IF c.awaiting = "generateAssessment"
    THEN setLoading(logAgent(s, SYSTEM, "Error"), FALSE)
    ELSE setLoading(s, FALSE)

\* A gateway call throws.  safetyCheck does not throw on an empty response.
gatewayFails ==
    \E c \in chains, kind \in FailureKinds :
       /\ ~(c.awaiting = "safetyCheck" /\ kind = "EmptyResponse")
       /\ state' = catchBlock(state, c)
       /\ chains' = chains \ {c}
       /\ last' = Event("gatewayFails", Some(c), kind)
       /\ UNCHANGED <<currentQuestion, currentContent, timers, nextId, clicks,
                      continues, downloads>>

----------------------------------------------------------------------------
(* Content card and export *)

\* ContentCard's Continue Learning button: the card is rendered when not
\* loading, in step learning, with a current material.
handleContentNext ==
    /\ ~state.isLoading
    /\ state.currentStep = "learning"
    /\ currentContent # Null
    /\ UserActions < MaxUserActions
    /\ currentContent' = Null
    /\ IF state.session # Null
       THEN LET sess == Get(state.session)
                c == [Chain(0 - (continues + 1), "continue", "generateAssessment", FALSE,
                            sess.masteryScore, sess.masteryScore, sess.topic,
                            sess.gradeLevel, sess.courseName, Null, currentContent)
                        EXCEPT !.difficulty = DifficultyFor(sess.masteryScore)]
            IN /\ state' = assessmentCall(state)
               /\ chains' = chains \cup {c}
               /\ last' = Event("handleContentNext", Some(c), "")
       ELSE /\ UNCHANGED <<state, chains>>
            /\ last' = Event("handleContentNext", Null, "")
    /\ continues' = continues + 1
    /\ UNCHANGED <<currentQuestion, timers, nextId, clicks, downloads>>

IsContent(h) == h.type = "content"
IsQuizAny(h) == TRUE

IsQuiz(h) == h.type = "quiz"
DataOf(hs) == [i \in 1 .. Len(hs) |-> hs[i].data]

\* packData of downloadPack
packData(s) ==
    LET sess == Get(s.session) IN
    [course |-> sess.courseName,
     studentLevel |-> sess.gradeLevel,
     topic |-> sess.topic,
     materials |-> DataOf(SelectSeq(sess.history, IsContent)),
     reviewQuizzes |-> DataOf(SelectSeq(sess.history, IsQuiz)),
     logs |-> s.logs]

\* The Export Pack button exists once there is a session.
downloadPack ==
    /\ state.session # Null
    /\ UserActions < MaxUserActions
    /\ downloads' = Append(downloads, packData(state))
    /\ state' = logAgent(state, SYSTEM, "Offline Export")
    /\ last' = Event("downloadPack", Null, "")
    /\ UNCHANGED <<currentQuestion, currentContent, timers, chains, nextId, clicks, continues>>

----------------------------------------------------------------------------

Next ==
    \/ handleStart
    \/ handleSelect
    \/ handleAnswer
    \/ adaptPathReturns
    \/ generateAssessmentReturns
    \/ curateContentReturns
    \/ safetyCheckReturns
    \/ bridgeLanguageReturns
    \/ gatewayFails
    \/ handleContentNext
    \/ downloadPack

Spec == Init /\ [][Next]_vars

\* A Model Gateway call in flight is a pending promise: it settles.
gatewaySettles ==
    \/ generateAssessmentReturns
    \/ adaptPathReturns
    \/ curateContentReturns
    \/ safetyCheckReturns
    \/ bridgeLanguageReturns
    \/ gatewayFails

\* the application under the assumption that every issued call returns or fails
SpecLive == Spec /\ WF_vars(gatewaySettles)

----------------------------------------------------------------------------
(* The handlers applied to any AppState.                                   *)
(* appReducer and the synchronous segments of the handlers are functions   *)
(* of the state they start from.  SpecAny starts from every AppState of a  *)
(* bounded set -- any mastery in 0..100, any step, with or without a       *)
(* session, log entries, a card on screen and pending option clicks -- and *)
(* applies the handlers to it.                                              *)

MaxMastery == 100

SampleQuestion ==
    [qid |-> 1, numOptions |-> NumOptions, correctOptionIndex |-> 1,
     difficulty |-> "medium", topic |-> "Linear Equations"]

SampleMaterial == [mid |-> 1, languageMode |-> "urdu_mix"]

AnySessions ==
    {Null} \cup
    {Some([topic |-> "Algebra", courseName |-> FullContext("Punjab", "General Science"),
           gradeLevel |-> "9", masteryScore |-> m, history |-> <<>>]) :
        m \in 0 .. MaxMastery}

AnyStates ==
    {[isOfflineMode |-> FALSE, isLowBandwidth |-> FALSE, currentStep |-> step,
      logs |-> logs, session |-> session, isLoading |-> FALSE] :
        step \in {"idle", "assessing", "learning"},
        logs \in {<<>>, <<AgentLog(SYSTEM, "Offline Export")>>},
        session \in AnySessions}

\* the option clicks still pending: none, one, or two on the same card
AnyTimers(s) ==
    IF s.session = Null THEN {<<>>}
    ELSE LET T(idx, n) == [idx |-> idx, click |-> n,
                           currentQuestion |-> Some(SampleQuestion),
                           session |-> s.session]
         IN {<<>>} \cup {<<T(i, 1)>> : i \in ClickIndexes}
                   \cup {<<T(i, 1), T(j, 2)>> : i \in ClickIndexes, j \in ClickIndexes}

InitAny ==
    /\ state \in AnyStates
    /\ currentQuestion \in {Null, Some(SampleQuestion)}
    /\ currentContent \in {Null, Some(SampleMaterial)}
    /\ timers \in AnyTimers(state)
    /\ chains = {}
    /\ nextId = 2
    /\ clicks = Len(timers)
    /\ continues = 0
    /\ downloads = <<>>
    /\ last = [op |-> "init", chain |-> Null, info |-> "", pre |-> state,
               preQuestion |-> currentQuestion, preContent |-> currentContent]

\* startSession in whatever state the application is
startSession ==
    \E t \in TopicInputs, src \in Sources, crs \in CourseInputs :
       handleStartBody(t, src, crs)

\* the Low BW / Standard button of the header
toggleBandwidth ==
    /\ state' = appReducer(state, [type |-> "TOGGLE_BANDWIDTH"])
    /\ last' = Event("toggleBandwidth", Null, "")
    /\ UNCHANGED <<currentQuestion, currentContent, timers, chains, nextId, clicks,
                   continues, downloads>>

NextAny ==
    \/ startSession
    \/ handleAnswer
    \/ handleContentNext
    \/ toggleBandwidth

SpecAny == InitAny /\ [][NextAny]_vars

----------------------------------------------------------------------------
(* downloadPack applied to any session.                                    *)
(* packData is a function of state.session and state.logs.  SpecExport     *)
(* starts from sessions whose history is any sequence of up to             *)
(* MaxHistory events of the two types LearningSession declares, and        *)
(* exports them.                                                           *)

MaxHistory == 3

\* a history entry of type 'content'
ContentEvent(material) == [type |-> "content", data |-> material]

ExportQuestions == {[SampleQuestion EXCEPT !.qid = i] : i \in 1 .. 2}
ExportMaterials == {[SampleMaterial EXCEPT !.mid = i] : i \in 1 .. 2}

HistoryEvents ==
    {QuizEvent(q, TRUE) : q \in ExportQuestions}
       \cup {ContentEvent(m) : m \in ExportMaterials}

Histories == UNION {[1 .. n -> HistoryEvents] : n \in 0 .. MaxHistory}

ExportStates ==
    {[isOfflineMode |-> FALSE, isLowBandwidth |-> FALSE, currentStep |-> "learning",
      logs |-> logs,
      session |-> Some([topic |-> "Algebra",
                        courseName |-> FullContext("Punjab", "General Science"),
                        gradeLevel |-> "9", masteryScore |-> 0, history |-> h]),
      isLoading |-> FALSE] :
        logs \in {<<>>, <<AgentLog(SYSTEM, "Session Init")>>},
        h \in Histories}

InitExport ==
    /\ state \in ExportStates
    /\ currentQuestion = Null
    /\ currentContent = Null
    /\ timers = <<>>
    /\ chains = {}
    /\ nextId = 1
    /\ clicks = 0
    /\ continues = 0
    /\ downloads = <<>>
    /\ last = [op |-> "init", chain |-> Null, info |-> "", pre |-> state,
               preQuestion |-> currentQuestion, preContent |-> currentContent]

NextExport == downloadPack

SpecExport == InitExport /\ [][NextExport]_vars

----------------------------------------------------------------------------
(* generateAssessment on any reply that parses.                            *)
(* JSON.parse(text) as QuizQuestion returns whatever object the text       *)
(* holds.  SpecParsed runs the quiz part of the application with replies   *)
(* whose option count, correct index and difficulty label are not          *)
(* restricted to the ones the prompt asked for.                            *)

ParsedOptionCounts == {3, 4}
ParsedCorrectIndexes == {1, 4}
ParsedDifficulties == {"medium", "extreme"}

ParsedQuizReplies(id) ==
    {[qid |-> id, numOptions |-> n, correctOptionIndex |-> c,
      difficulty |-> d, topic |-> t] :
        n \in ParsedOptionCounts, c \in ParsedCorrectIndexes,
        d \in ParsedDifficulties, t \in ReplyTopics}

generateAssessmentReturnsParsed ==
    \E c \in chains : \E quiz \in ParsedQuizReplies(nextId) : quizReturned(c, quiz)

NextParsed ==
    \/ handleStart
    \/ generateAssessmentReturnsParsed
    \/ handleSelect
    \/ handleAnswer
    \/ adaptPathReturns
    \/ gatewayFails

SpecParsed == Init /\ [][NextParsed]_vars

----------------------------------------------------------------------------
(* Properties *)

HasSession == state.session # Null
Mastery == Get(state.session).masteryScore
History == Get(state.session).history

\* the handler segment that ran last was applied to a state with a session
AnsweredFrom(m, correct) ==
    /\ last.op = "handleAnswer"
    /\ last.pre.session # Null
    /\ Get(last.pre.session).masteryScore = m
    /\ Get(last.chain).lastCorrect = correct

\* C1: recording a quiz answer at mastery m in 0..100 leaves the session
\* mastery at m+20, or 100 if that exceeds 100, when the answer is correct and
\* at m-10, or 0 if that is negative, when it is not; from 0 a correct answer
\* gives 20 and an incorrect answer at 20 gives 10.
RecordAnswerMastery ==
    /\ \A m \in 0 .. MaxMastery :
          /\ AnsweredFrom(m, TRUE) =>
                \/ m + 20 <= 100 /\ Mastery = m + 20
                \/ m + 20 > 100 /\ Mastery = 100
          /\ AnsweredFrom(m, FALSE) =>
                \/ m - 10 >= 0 /\ Mastery = m - 10
                \/ m - 10 < 0 /\ Mastery = 0
    /\ AnsweredFrom(0, TRUE) => Mastery = 20
    /\ AnsweredFrom(20, FALSE) => Mastery = 10

\* C1 witness: a correct answer recorded at mastery 0 and then an incorrect
\* one: the mastery is 10.
RecordAnswerMasteryWitness ==
    /\ AnsweredFrom(20, FALSE)
    /\ Len(History) = 2
    /\ History[1].isCorrect
    /\ ~History[2].isCorrect
    /\ Mastery = 10

\* C2: whenever a session exists its mastery score is an integer in 0..100.
MasteryInRange == HasSession => Mastery \in 0 .. 100

\* C2 witness: the same question answered wrongly twice at mastery 0.
MasteryInRangeWitness ==
    /\ AnsweredFrom(0, FALSE)
    /\ Len(History) = 2
    /\ History[1].data = History[2].data
    /\ Mastery = 0

\* C3: every generateAssessment request asks for hard above 70, medium above
\* 40 up to 70, easy up to 40, and the request of handleStart is made at
\* mastery 0 and asks for easy.
DifficultyThresholds ==
    \A c \in chains :
       c.awaiting = "generateAssessment" =>
          /\ c.mastery > 70 => c.difficulty = "hard"
          /\ (c.mastery > 40 /\ c.mastery <= 70) => c.difficulty = "medium"
          /\ c.mastery <= 40 => c.difficulty = "easy"
          /\ c.origin = "start" => (c.mastery = 0 /\ c.difficulty = "easy")

\* C3 witness: a request at mastery exactly 70 asking for medium, next to the
\* first request of a session.
DifficultyThresholdsWitness ==
    \E c \in chains, d \in chains :
       /\ c.awaiting = "generateAssessment" /\ c.mastery = 70 /\ c.difficulty = "medium"
       /\ d.awaiting = "generateAssessment" /\ d.origin = "start"

\* C4: the mastery handed to adaptPath, and from there to generateAssessment,
\* is the session mastery as it is after the answer was recorded.
AdaptationAtUpdatedMastery ==
    \A c \in chains :
       c.origin = "answer" =>
          /\ c.mastery = c.masteryAfter
          /\ c.awaiting = "generateAssessment" =>
                c.difficulty = DifficultyFor(c.masteryAfter)

\* C5: at most one Model Gateway call sequence is in flight.
SingleFlight == Cardinality(chains) <= 1

\* C6: a Model Gateway failure appends exactly one System/Error trace entry
\* and leaves the loading flag cleared.
FailureLogsError ==
    last.op = "gatewayFails" =>
       /\ Len(state.logs) = Len(last.pre.logs) + 1
       /\ SubSeq(state.logs, 1, Len(last.pre.logs)) = last.pre.logs
       /\ state.logs[Len(state.logs)].agent = SYSTEM
       /\ state.logs[Len(state.logs)].action = "Error"
       /\ ~state.isLoading

\* C7: after a Model Gateway failure the card that was on screen when the
\* action was triggered is current again.
FailureKeepsScreen ==
    last.op = "gatewayFails" =>
       /\ Get(last.chain).origin = "answer" => currentQuestion = Get(last.chain).question
       /\ Get(last.chain).origin = "continue" => currentContent = Get(last.chain).material

\* a transition has completed and nothing is pending
Completed ==
    /\ last.op \in {"generateAssessmentReturns", "bridgeLanguageReturns"}
    /\ chains = {}
    /\ timers = <<>>

\* C8: after a completed transition exactly one of the current question and
\* the current material is non-null.
ExactlyOneCurrent ==
    Completed => ((currentQuestion # Null) # (currentContent # Null))

\* C9: the history of a session only grows at its end: every step leaves the
\* entries already present where they are.
HistoryAppendOnly ==
    [][(state.session # Null /\ state'.session # Null) =>
          IsPrefix(Get(state.session).history, Get(state'.session).history)]_vars

\* C9 witness: a history of two different entries.
HistoryAppendOnlyWitness ==
    /\ HasSession
    /\ Len(History) = 2
    /\ History[1] # History[2]

\* C10: startSession, whatever the state before, leaves a session of mastery 0
\* with an empty history, step assessing, and a trace log holding nothing but
\* the two entries the start itself writes.
StartSessionResets ==
    last.op = "handleStart" =>
       /\ HasSession
       /\ Mastery = 0
       /\ History = <<>>
       /\ state.currentStep = "assessing"
       /\ state.logs = <<AgentLog(SYSTEM, "Initialization"),
                         AgentLog(ASSESSMENT, "Generating Quiz")>>

\* C10 witness: a start from step learning with mastery, history and trace
\* log entries present.
StartSessionResetsWitness ==
    /\ last.op = "handleStart"
    /\ last.pre.currentStep = "learning"
    /\ last.pre.session # Null
    /\ Get(last.pre.session).masteryScore > 0
    /\ Get(last.pre.session).history # <<>>
    /\ last.pre.logs # <<>>

----------------------------------------------------------------------------
(* Properties of the content sub-sequence, history, export and trace *)

\* the chain the last segment ran for, as it is suspended now
Resumed(c) == c \in chains /\ last.chain # Null /\ c.id = Get(last.chain).id

\* the trace entries the last segment appended
NewLogs == SubSeq(state.logs, Len(last.pre.logs) + 1, Len(state.logs))

\* C11: after safetyCheck answers safe = false the handler goes on to
\* bridgeLanguage, whose result is displayed in step learning, and a trace
\* entry of status warning is appended for the unsafe result.
UnsafeContentWarned ==
    /\ (last.op = "safetyCheckReturns" /\ last.info = "unsafe") =>
          /\ \E c \in chains : Resumed(c) /\ c.awaiting = "bridgeLanguage"
          /\ \E i \in 1 .. Len(NewLogs) :
                NewLogs[i].agent = SAFETY /\ NewLogs[i].status = "warning"
    /\ last.op = "bridgeLanguageReturns" =>
          /\ state.currentStep = "learning"
          /\ currentContent # Null
          /\ Get(currentContent).languageMode = "urdu_mix"


\* the calls of the content sub-sequence are issued one after the other
\* returned, and only a finished sub-sequence of an answer shows a material
ContentCallsInOrder ==
    /\ \A c \in chains :
          /\ c.awaiting = "curateContent" => c.trail = <<"adaptPath">>
          /\ c.awaiting = "safetyCheck" =>
                c.trail = <<"adaptPath", "curateContent">> /\ c.raw # Null
          /\ c.awaiting = "bridgeLanguage" =>
                c.trail = <<"adaptPath", "curateContent", "safetyCheck">> /\ c.raw # Null
    /\ ((state.currentStep = "learning" /\ last.pre.currentStep # "learning")
           \/ (currentContent # Null /\ currentContent # last.preContent)) =>
          /\ last.op = "bridgeLanguageReturns"
          /\ Get(last.chain).origin = "answer"
          /\ Get(last.chain).trail = <<"adaptPath", "curateContent", "safetyCheck">>

\* C12: the step becomes learning and a material becomes current only after
\* an adaptation decision of content, then curateContent, then safetyCheck,
\* then bridgeLanguage, each issued after the one before has returned.
ContentSequenceOrdered ==
    /\ ContentCallsInOrder
    /\ (last.op = "adaptPathReturns"
          /\ \E c \in chains : Resumed(c) /\ c.awaiting = "curateContent") =>
          last.info = "content"


\* C13: continueFromContent in step learning drops the current material and
\* issues one generateAssessment call for the session's topic, grade and
\* mastery; when that call returns, the step is assessing, the new question
\* is current and no material is.
ContinueRequestsQuiz ==
    /\ last.op = "handleContentNext" =>
          /\ last.pre.currentStep = "learning"
          /\ last.preContent # Null
          /\ currentContent = Null
          /\ \E c \in chains :
                /\ Resumed(c)
                /\ c.awaiting = "generateAssessment"
                /\ c.topic = Get(state.session).topic
                /\ c.grade = Get(state.session).gradeLevel
                /\ c.mastery = Get(state.session).masteryScore
                /\ \A d \in chains : d.origin = "continue" => d = c
    /\ (last.op = "generateAssessmentReturns" /\ Get(last.chain).origin = "continue") =>
          /\ state.currentStep = "assessing"
          /\ currentQuestion # Null
          /\ currentQuestion # last.preQuestion
          /\ currentContent = Null


\* the quiz event appended by the answer just submitted holds the question and
\* its correctness, and adaptPath has been called only after the append
QuizEventAppended ==
    last.op = "handleAnswer" =>
       LET c == Get(last.chain)
           q == Get(c.question)
           h0 == Get(last.pre.session).history
           ev == History[Len(History)]
       IN /\ Len(History) = Len(h0) + 1
          /\ IsPrefix(h0, History)
          /\ ev.type = "quiz"
          /\ ev.data = q
          /\ ev.isCorrect = (c.index = q.correctOptionIndex)
          /\ c \in chains
          /\ c.awaiting = "adaptPath"

\* C14: submitAnswer(index) on the question q appends exactly one quiz
\* History Event holding q, the chosen index and the correctness flag
\* (true exactly when index = q.correctOptionIndex), before decideNextStep
\* is called.
AnswerEventHoldsIndex ==
    /\ QuizEventAppended
    /\ last.op = "handleAnswer" =>
          LET ev == History[Len(History)]
          IN /\ "userResponse" \in DOMAIN ev
             /\ ev.userResponse = Get(last.chain).index


\* C15: whenever a material is displayed (step learning with that material
\* current), the session history has an event of type content holding it.
ContentExposureRecorded ==
    (state.currentStep = "learning" /\ ~state.isLoading /\ currentContent # Null) =>
       \E i \in 1 .. Len(History) :
          /\ History[i].type = "content"
          /\ History[i].data = Get(currentContent)


\* number of entries of type ty among the first n of history h
CountOfType(h, ty, n) == Cardinality({j \in 1 .. n : h[j].type = ty})

\* list xs holds the data of the entries of type ty of h, one each, in order
ProjectionOf(xs, h, ty) ==
    /\ Len(xs) = CountOfType(h, ty, Len(h))
    /\ \A i \in 1 .. Len(h) :
          h[i].type = ty => xs[CountOfType(h, ty, i)] = h[i].data

LastPack == downloads[Len(downloads)]

\* C16: the export artifact is a snapshot of the session at the moment of the
\* export: reviewQuizzes has one element per quiz entry of history and
\* materials one per content entry, in history order, with the session's
\* topic, course and grade and the whole trace log as it was then; two quiz
\* events and one content event export lengths 2 and 1.
ExportIsSnapshot ==
    last.op = "downloadPack" =>
       LET sess == Get(last.pre.session) IN
       /\ ProjectionOf(LastPack.reviewQuizzes, sess.history, "quiz")
       /\ ProjectionOf(LastPack.materials, sess.history, "content")
       /\ LastPack.topic = sess.topic
       /\ LastPack.course = sess.courseName
       /\ LastPack.studentLevel = sess.gradeLevel
       /\ LastPack.logs = last.pre.logs
       /\ (CountOfType(sess.history, "quiz", Len(sess.history)) = 2
             /\ CountOfType(sess.history, "content", Len(sess.history)) = 1) =>
             Len(LastPack.reviewQuizzes) = 2 /\ Len(LastPack.materials) = 1

ExportIsSnapshotWitness ==
    /\ last.op = "downloadPack"
    /\ Len(History) = 3
    /\ History[1].type = "quiz" /\ History[2].type = "content" /\ History[3].type = "quiz"
    /\ History[1].data # History[3].data
    /\ Len(LastPack.reviewQuizzes) = 2
    /\ Len(LastPack.materials) = 1
    /\ Len(LastPack.logs) = 1


GatewayOutcomes ==
    {"generateAssessmentReturns", "adaptPathReturns", "curateContentReturns",
     "safetyCheckReturns", "bridgeLanguageReturns", "gatewayFails"}

\* C17: no Model Gateway outcome (a call returning, failing to parse, failing
\* in transport or coming back empty) changes the session: topic, course,
\* grade, mastery and history are after it what they were before it; an
\* existing session changes only in the answer evaluation of submitAnswer.
GatewayLeavesSession ==
    /\ last.op \in GatewayOutcomes => state.session = last.pre.session
    /\ state.session # last.pre.session =>
          \/ last.op = "handleAnswer"
          \/ last.op = "handleStart" /\ last.pre.session = Null

GatewayLeavesSessionWitness ==
    /\ last.op = "gatewayFails"
    /\ last.info = "MalformedResponse"
    /\ HasSession
    /\ Len(History) = 2
    /\ Mastery = 10
    /\ state.session = last.pre.session


\* C18: while a Model Gateway call is in flight the loading flag is true, and
\* the flag turns false only in the step in which a call sequence ends (its
\* last call returned, or a call failed), with no call left in flight.
BusyCoversCalls ==
    /\ chains # {} => state.isLoading
    /\ (last.pre.isLoading /\ ~state.isLoading) =>
          /\ \/ last.op \in {"generateAssessmentReturns", "bridgeLanguageReturns",
                             "gatewayFails"}
             \/ last.op = "adaptPathReturns" /\ last.info = "undefined"
          /\ \A c \in chains : c.id # Get(last.chain).id


\* C19: once a session has started, every step leaves the trace entries
\* already present where they are and adds new entries only at the end.
LogAppendOnly ==
    [][state.session # Null => IsPrefix(state.logs, state'.logs)]_vars

\* C19 witness: a failure's entry added behind those of an answered quiz.
LogAppendOnlyWitness ==
    /\ HasSession
    /\ last.op = "gatewayFails"
    /\ Len(last.pre.logs) >= 6
    /\ Len(state.logs) = Len(last.pre.logs) + 1
    /\ state.logs[Len(state.logs)] = AgentLog(SYSTEM, "Error")
    /\ state.logs[1] # state.logs[2]


EmptyIsFailure == {"generateAssessment", "adaptPath", "curateContent", "bridgeLanguage"}

\* C20: checkSafety fails open: on a reply without text the content sequence
\* goes on to localization exactly as for verified content, whereas an empty
\* reply to generateQuestion, decideNextStep, curateMaterial or
\* localizeMaterial is a failure that ends the sequence and leaves the step
\* and the cards as they were.
SafetyFailsOpen ==
    /\ (last.op = "safetyCheckReturns" /\ last.info = "no text") =>
          /\ NewLogs = <<AgentLog(SAFETY, "Verified"), AgentLog(LANGUAGE, "Localizing")>>
          /\ \E c \in chains : Resumed(c) /\ c.awaiting = "bridgeLanguage"
          /\ state.currentStep = last.pre.currentStep
    /\ (last.op = "gatewayFails" /\ last.info = "EmptyResponse") =>
          /\ Get(last.chain).awaiting \in EmptyIsFailure
          /\ \A c \in chains : c.id # Get(last.chain).id
          /\ state.currentStep = last.pre.currentStep
          /\ currentQuestion = last.preQuestion
          /\ currentContent = last.preContent
          /\ ~state.isLoading

SafetyFailsOpenWitness ==
    /\ last.op = "safetyCheckReturns"
    /\ last.info = "no text"
    /\ \E c \in chains : Resumed(c) /\ c.awaiting = "bridgeLanguage"
    /\ state.logs[Len(state.logs) - 1] = AgentLog(SAFETY, "Verified")


\* C21: a question becomes current only if it has exactly four options, a
\* correctOptionIndex that is an index into them (0..3) and a difficulty of
\* easy, medium or hard; any other parsed reply is a MalformedResponse.
CurrentQuestionWellFormed ==
    currentQuestion # Null =>
       LET q == Get(currentQuestion) IN
       /\ q.numOptions = NumOptions
       /\ q.correctOptionIndex \in 0 .. (NumOptions - 1)
       /\ q.difficulty \in {"easy", "medium", "hard"}


\* a plan without nextAction ends the sequence: no call follows, the loading
\* flag is cleared and the step and the cards stay as they were
MissingActionAborts ==
    (last.op = "adaptPathReturns" /\ last.info = "undefined") =>
       /\ \A c \in chains : c.id # Get(last.chain).id
       /\ ~state.isLoading
       /\ state.currentStep = last.pre.currentStep
       /\ currentQuestion = last.preQuestion
       /\ currentContent = last.preContent

\* C22: a decideNextStep reply without nextAction aborts the transition, so
\* neither generateQuestion nor the curate/safety/localize sequence is
\* started; a reply whose nextAction is neither quiz nor content enters
\* neither branch.
UnknownActionEntersNoBranch ==
    /\ MissingActionAborts
    /\ (last.op = "adaptPathReturns" /\ last.info \notin {"quiz", "content"}) =>
          \A c \in chains : c.id # Get(last.chain).id


\* C23: submitAnswer invoked when there is no current question, or no
\* session, changes nothing: mastery, history, trace log, step and loading
\* flag stay as they were and no Model Gateway call is issued.
AnswerWithoutQuestionIgnored ==
    (last.op = "handleAnswer" /\ (last.preQuestion = Null \/ last.pre.session = Null)) =>
       /\ state = last.pre
       /\ Get(last.chain) \notin chains


\* C24: each generated question is scored at most once: no two quiz events
\* of the history are for the same question, so the quiz events are at most
\* as many as the questions that became current, however many options of a
\* card are clicked before the delayed callbacks run.
QuestionScoredOnce ==
    HasSession =>
       \A i \in 1 .. Len(History) : \A j \in 1 .. Len(History) :
          (i # j /\ History[i].type = "quiz" /\ History[j].type = "quiz") =>
             History[i].data.qid # History[j].data.qid


\* C25: every generateQuestion, decideNextStep and curateMaterial call of a
\* session is made for the topic given to startSession; the topic label of a
\* generated question never takes its place.
CallsUseSessionTopic ==
    \A c \in chains :
       c.awaiting \in {"generateAssessment", "adaptPath", "curateContent"} =>
          c.topic = Get(state.session).topic


Triggers == {"handleStart", "handleAnswer", "handleContentNext"}

\* C26: if every issued Model Gateway call returns or fails, then start,
\* submitAnswer and continueFromContent are each eventually followed by a
\* state in which the loading flag is false.
BusyEventuallyClears == (last.op \in Triggers) ~> ~state.isLoading

\* C26 witness: the flag cleared by the failure of the last call of the
\* longest chain.
BusyEventuallyClearsWitness ==
    /\ last.op = "gatewayFails"
    /\ Get(last.chain).awaiting = "bridgeLanguage"
    /\ last.pre.isLoading
    /\ ~state.isLoading


\* C27: the step only moves forward out of idle: with a session the step is
\* assessing or learning, it never goes back to idle and is never summary,
\* and start, offered only in idle, happens at most once.
StepOnlyForward ==
    /\ [](/\ state.currentStep # "summary"
          /\ HasSession => state.currentStep \in {"assessing", "learning"}
          /\ last.op = "handleStart" =>
                last.pre.currentStep = "idle" /\ last.pre.session = Null)
    /\ [][state.currentStep # "idle" => state'.currentStep # "idle"]_vars

\* C27 witness: a failed call in step learning leaves the step where it is.
StepOnlyForwardWitness ==
    /\ last.op = "gatewayFails"
    /\ last.pre.currentStep = "learning"
    /\ state.currentStep = "learning"
    /\ HasSession

====
